---- MODULE Spec2Model ----
(***************************************************************************)
(* Peer-replicated ledger: the command dispatcher (src/src/control.rs),    *)
(* the Lamport counter it threads through the Ledger Store, and the        *)
(* broadcast / receipt path between nodes.                                 *)
(*                                                                         *)
(* handle_command is an async fn: it runs from its entry to the            *)
(* `send_message_to_all(..).await` (action Local / Receive) and from there *)
(* to its return (action BroadcastDone).  It holds `&mut lamport_time`     *)
(* for the whole call, so a node executes one call at a time.              *)
(***************************************************************************)
EXTENDS Integers, FiniteSets, Sequences, TLC

\* ---------------------------------------------------------------- bounds
\* Records (users and transactions) all stores together may hold before the
\* model stops creating more.
MaxRecords == 4
\* Envelopes that may be on their way (being sent, or sent and not yet decoded).
MaxInFlight == 1
\* Width, in bits, of the model's signed counter (stands for i64's 64).
ClockBits == 4

Nodes == {"A", "B"}
Names == {"alice", "bob"}
Amounts == {0, 1}
NULL == "NULL"

Pow2(n) == 2 ^ n
I64_MAX == Pow2(ClockBits - 1) - 1
I64_MIN == 0 - Pow2(ClockBits - 1)
I64 == I64_MIN..I64_MAX

\* ---------------------------------------------------------------- Command
MutatingCommands == {"CreateUser", "Deposit", "Withdraw", "Transfer", "Pay", "Refund"}
QueryCommands == {"UserAccounts", "PrintUserTransactions", "PrintTransactions"}
TerminalCommands == {"Help", "Unknown", "Error"}
Command == MutatingCommands \cup QueryCommands \cup TerminalCommands
\* the commands whose db operation stamps a transaction record
StampingCommands == {"Deposit", "Withdraw", "Transfer", "Pay", "Refund"}

\* ---------------------------------------------------------------- Clock
\* two's-complement wrap of an i64 (lamport_time: &mut i64)
WrapNarrow(x) == ((x + Pow2(ClockBits - 2)) % Pow2(ClockBits - 1)) - Pow2(ClockBits - 2)
Wrap(x) == ((x - I64_MIN) % Pow2(ClockBits)) + I64_MIN

Max(a, b) == IF a >= b THEN a ELSE b

tick(c) == Wrap(c + 1)
observe(c, remote) == Wrap(Max(c, remote) + 1)

\* ---------------------------------------------------------------- Ledger Store
NoRef == <<0, "">>
EmptyStore == [users |-> {}, balance |-> [u \in Names |-> 0], txs |-> {}]

NewTx(t, node, sender, beneficiary, amount, reference) ==
    [lamport_time |-> t, origin_node |-> node, sender |-> sender,
     beneficiary |-> beneficiary, amount |-> amount, reference |-> reference]

Fail(st, clock, err) == [store |-> st, clock |-> clock, res |-> err]

Credit(bal, who, amount) ==
    IF who \in Names THEN [bal EXCEPT ![who] = @ + amount] ELSE bal

create_user(st, name, io_fail) ==
    IF io_fail THEN [store |-> st, res |-> "Persistence"]
    ELSE IF name \in st.users THEN [store |-> st, res |-> "DuplicateUser"]
    ELSE [store |-> [st EXCEPT !.users = @ \cup {name}, !.balance[name] = 0],
          res |-> "Ok"]

deposit(st, name, amount, clock, node, io_fail) ==
    IF io_fail THEN Fail(st, clock, "Persistence")
    ELSE IF name \notin st.users THEN Fail(st, clock, "UnknownUser")
    ELSE IF amount <= 0 THEN Fail(st, clock, "InvalidAmount")
    ELSE LET t == tick(clock) IN
         [store |-> [st EXCEPT !.balance = Credit(@, name, amount),
                               !.txs = @ \cup {NewTx(t, node, NULL, name, amount, NoRef)}],
          clock |-> t, res |-> "Ok"]

withdraw(st, name, amount, clock, node, io_fail) ==
    IF io_fail THEN Fail(st, clock, "Persistence")
    ELSE IF name \notin st.users THEN Fail(st, clock, "UnknownUser")
    ELSE IF amount <= 0 THEN Fail(st, clock, "InvalidAmount")
    ELSE IF amount > st.balance[name] THEN Fail(st, clock, "InsufficientFunds")
    ELSE LET t == tick(clock) IN
         [store |-> [st EXCEPT !.balance = Credit(@, name, 0 - amount),
                               !.txs = @ \cup {NewTx(t, node, name, NULL, amount, NoRef)}],
          clock |-> t, res |-> "Ok"]

create_transaction(st, sender, beneficiary, amount, clock, node, reference, io_fail) ==
    IF io_fail THEN Fail(st, clock, "Persistence")
    ELSE IF sender \notin st.users THEN Fail(st, clock, "UnknownUser")
    ELSE IF beneficiary # NULL /\ beneficiary \notin st.users
         THEN Fail(st, clock, "UnknownUser")
    ELSE IF amount <= 0 THEN Fail(st, clock, "InvalidAmount")
    ELSE LET t == tick(clock) IN
         [store |-> [st EXCEPT !.balance = Credit(Credit(@, sender, 0 - amount),
                                                  beneficiary, amount),
                               !.txs = @ \cup {NewTx(t, node, sender, beneficiary,
                                                     amount, reference)}],
          clock |-> t, res |-> "Ok"]

refund_transaction(st, transac_time, transac_node, clock, node, io_fail) ==
    LET found == {x \in st.txs : x.lamport_time = transac_time
                                 /\ x.origin_node = transac_node} IN
    IF io_fail THEN Fail(st, clock, "Persistence")
    ELSE IF found = {} THEN Fail(st, clock, "TransactionNotFound")
    ELSE LET T == CHOOSE x \in found : TRUE
             t == tick(clock) IN
         [store |-> [st EXCEPT !.balance = Credit(Credit(@, T.beneficiary, 0 - T.amount),
                                                  T.sender, T.amount),
                               !.txs = @ \cup {NewTx(t, node, T.beneficiary, T.sender,
                                                     T.amount,
                                                     <<T.lamport_time, T.origin_node>>)}],
          clock |-> t, res |-> "Ok"]

\* print_users, print_transactions, print_transaction_for_user
db_query(st, clock, io_fail) ==
    IF io_fail THEN Fail(st, clock, "Persistence") ELSE Fail(st, clock, "Ok")

\* ---------------------------------------------------------------- Message Model
NoInput == [name |-> "", amount |-> 0, beneficiary |-> "", transac_time |-> 0,
            transac_node |-> "", io_fail |-> FALSE]

NoInfo == [kind |-> "None", name |-> "", amount |-> 0, beneficiary |-> ""]

MessageInfoSwapped(cmd, in) ==
    IF cmd = "CreateUser" THEN [NoInfo EXCEPT !.kind = "CreateUser", !.name = in.name]
    ELSE IF cmd \in {"Deposit", "Withdraw", "Pay"} THEN
        [NoInfo EXCEPT !.kind = cmd, !.name = in.name, !.amount = in.amount]
    ELSE IF cmd = "Transfer" THEN
        [NoInfo EXCEPT !.kind = cmd, !.name = in.beneficiary, !.amount = in.amount,
                       !.beneficiary = in.name]
    ELSE NoInfo

MessageInfo(cmd, in) ==
    IF cmd = "CreateUser" THEN [NoInfo EXCEPT !.kind = "CreateUser", !.name = in.name]
    ELSE IF cmd \in {"Deposit", "Withdraw", "Pay"} THEN
        [NoInfo EXCEPT !.kind = cmd, !.name = in.name, !.amount = in.amount]
    ELSE IF cmd = "Transfer" THEN
        [NoInfo EXCEPT !.kind = cmd, !.name = in.name, !.amount = in.amount,
                       !.beneficiary = in.beneficiary]
    ELSE NoInfo

Message(cmd, in) ==
    [origin_command |-> cmd, code |-> "Transaction", payload |-> MessageInfo(cmd, in)]

NoMessage == [origin_command |-> "None", code |-> "None", payload |-> NoInfo]

\* What the prompt collaborator (stdin) and the persistence layer can hand to
\* one execution of a command.  A name that is only printed (Refund,
\* PrintUserTransactions) is not enumerated, and a persistence failure is
\* enumerated once per command: it fails the db call whatever the arguments.
\* For Refund the keys enumerated are those of the transactions `known` and
\* one key, (0, node), that no transaction has.
PromptInputs(cmd, known) ==
    IF cmd = "CreateUser" THEN
        {[NoInput EXCEPT !.name = u] : u \in Names}
    ELSE IF cmd \in {"Deposit", "Withdraw", "Pay"} THEN
        {[NoInput EXCEPT !.name = u, !.amount = a] : u \in Names, a \in Amounts}
    ELSE IF cmd = "Transfer" THEN
        {[NoInput EXCEPT !.name = u, !.amount = a, !.beneficiary = b] :
            u \in Names, a \in Amounts, b \in Names}
    ELSE IF cmd = "Refund" THEN
        {[NoInput EXCEPT !.transac_time = k[1], !.transac_node = k[2]] :
            k \in {<<x.lamport_time, x.origin_node>> : x \in known}
                   \cup {<<0, x>> : x \in Nodes}}
    ELSE {NoInput}

Inputs(cmd, known) ==
    PromptInputs(cmd, known) \cup
    (IF cmd \in MutatingCommands \cup QueryCommands
     THEN {[NoInput EXCEPT !.io_fail = TRUE]} ELSE {})

\* ---------------------------------------------------------------- Dispatcher
\* number of prompt() reads one execution makes (prompt_parse reads at least once)
Prompts(cmd) ==
    IF cmd \in {"CreateUser", "PrintUserTransactions"} THEN 1
    ELSE IF cmd \in {"Deposit", "Withdraw", "Pay"} THEN 2
    ELSE IF cmd \in {"Transfer", "Refund"} THEN 3
    ELSE 0

\* the `if !from_network { send_message_to_all(..).await? }` of each branch
BroadcastsEcho(cmd, from_network) ==
    cmd \in {"CreateUser", "Deposit", "Withdraw", "Transfer", "Pay"}
BroadcastsNoPay(cmd, from_network) ==
    cmd \in {"CreateUser", "Deposit", "Withdraw", "Transfer"} /\ ~from_network
BroadcastsAll(cmd, from_network) == ~from_network
BroadcastsRefund(cmd, from_network) ==
    cmd \in {"CreateUser", "Deposit", "Withdraw", "Transfer", "Pay", "Refund"}
    /\ ~from_network
Broadcasts(cmd, from_network) ==
    cmd \in {"CreateUser", "Deposit", "Withdraw", "Transfer", "Pay"} /\ ~from_network

\* the db call of each branch, with the arguments the branch passes
LedgerCallTwoStepTransfer(cmd, st, clock, node, in) ==
    IF cmd = "Transfer" THEN
        LET w == withdraw(st, in.name, in.amount, clock, node, in.io_fail) IN
        IF w.res # "Ok" THEN w
        ELSE LET d == deposit(w.store, in.beneficiary, in.amount, w.clock, node, in.io_fail)
             IN  IF d.res = "Ok" THEN d ELSE [w EXCEPT !.res = d.res]
    ELSE IF cmd = "Deposit" THEN deposit(st, in.name, in.amount, clock, node, in.io_fail)
    ELSE IF cmd = "Withdraw" THEN withdraw(st, in.name, in.amount, clock, node, in.io_fail)
    ELSE IF cmd = "Pay" THEN
        create_transaction(st, in.name, NULL, in.amount, clock, node, NoRef, in.io_fail)
    ELSE IF cmd = "Refund" THEN
        refund_transaction(st, in.transac_time, in.transac_node, clock, node, in.io_fail)
    ELSE IF cmd = "CreateUser" THEN
        [store |-> create_user(st, in.name, in.io_fail).store, clock |-> clock,
         res |-> create_user(st, in.name, in.io_fail).res]
    ELSE IF cmd \in QueryCommands THEN db_query(st, clock, in.io_fail)
    ELSE Fail(st, clock, "None")

LedgerCallRefundOwnKey(cmd, st, clock, node, in) ==
    IF cmd = "CreateUser" THEN
        [store |-> create_user(st, in.name, in.io_fail).store, clock |-> clock,
         res |-> create_user(st, in.name, in.io_fail).res]
    ELSE IF cmd = "Deposit" THEN deposit(st, in.name, in.amount, clock, node, in.io_fail)
    ELSE IF cmd = "Withdraw" THEN withdraw(st, in.name, in.amount, clock, node, in.io_fail)
    ELSE IF cmd = "Transfer" THEN
        create_transaction(st, in.name, in.beneficiary, in.amount, clock, node,
                           NoRef, in.io_fail)
    ELSE IF cmd = "Pay" THEN
        create_transaction(st, in.name, NULL, in.amount, clock, node, NoRef, in.io_fail)
    ELSE IF cmd = "Refund" THEN
        refund_transaction(st, clock, node, clock, node, in.io_fail)
    ELSE IF cmd \in QueryCommands THEN db_query(st, clock, in.io_fail)
    ELSE Fail(st, clock, "None")

LedgerCall(cmd, st, clock, node, in) ==
    IF cmd = "CreateUser" THEN
        [store |-> create_user(st, in.name, in.io_fail).store, clock |-> clock,
         res |-> create_user(st, in.name, in.io_fail).res]
    ELSE IF cmd = "Deposit" THEN deposit(st, in.name, in.amount, clock, node, in.io_fail)
    ELSE IF cmd = "Withdraw" THEN withdraw(st, in.name, in.amount, clock, node, in.io_fail)
    ELSE IF cmd = "Transfer" THEN
        create_transaction(st, in.name, in.beneficiary, in.amount, clock, node,
                           NoRef, in.io_fail)
    ELSE IF cmd = "Pay" THEN
        create_transaction(st, in.name, NULL, in.amount, clock, node, NoRef, in.io_fail)
    ELSE IF cmd = "Refund" THEN
        refund_transaction(st, in.transac_time, in.transac_node, clock, node, in.io_fail)
    ELSE IF cmd \in QueryCommands THEN db_query(st, clock, in.io_fail)
    ELSE Fail(st, clock, "None")

handle_commandStaleClock(cmd, st, clock, node, from_network, in) ==
    LET r == LedgerCall(cmd, st, clock, node, in)
        ok == r.res \in {"Ok", "None"}
    IN  [store |-> r.store, clock |-> clock, db |-> r.res,
         prompts |-> Prompts(cmd),
         panicked |-> ~ok,
         send |-> ok /\ Broadcasts(cmd, from_network),
         message |-> IF ok /\ Broadcasts(cmd, from_network)
                     THEN Message(cmd, in) ELSE NoMessage]

handle_commandSendFirst(cmd, st, clock, node, from_network, in) ==
    LET r == LedgerCall(cmd, st, clock, node, in)
        ok == r.res \in {"Ok", "None"}
    IN  [store |-> r.store, clock |-> r.clock, db |-> r.res,
         prompts |-> Prompts(cmd),
         panicked |-> ~ok,
         send |-> Broadcasts(cmd, from_network),
         message |-> IF Broadcasts(cmd, from_network)
                     THEN Message(cmd, in) ELSE NoMessage]

\* one execution of handle_command up to its await (or to its return when
\* nothing is sent): db is the Result of the db call (`.unwrap()` panics on
\* anything but Ok), send says whether send_message_to_all is called
handle_command(cmd, st, clock, node, from_network, in) ==
    LET r == LedgerCall(cmd, st, clock, node, in)
        ok == r.res \in {"Ok", "None"}
    IN  [store |-> r.store, clock |-> r.clock, db |-> r.res,
         prompts |-> Prompts(cmd),
         panicked |-> ~ok,
         send |-> ok /\ Broadcasts(cmd, from_network),
         message |-> IF ok /\ Broadcasts(cmd, from_network)
                     THEN Message(cmd, in) ELSE NoMessage]

\* ---------------------------------------------------------------- state
VARIABLES
    store,          \* store[n]: the Ledger Store behind node n's Connection
    lamport_time,   \* lamport_time[n]: node n's counter
    pc,             \* pc[n]: "idle", or "sending" inside send_message_to_all().await
    pending,        \* pending[n]: the call suspended at the await
    alive,          \* alive[n]: FALSE once a panic has ended the node
    net,            \* envelopes handed to a peer connection, not yet decoded
    last,           \* history: the most recent step of handle_command
    clk,            \* history: the most recent tick / observe
    cli,            \* the most recent call of run_cli: its argument and result
    prm,            \* the prompt_parse call in progress or just returned
    hook            \* the effect and the task of use_auto_refresh

vars == <<store, lamport_time, pc, pending, alive, net, last, clk, cli, prm, hook>>

\* the front-end state, which the Dispatcher does not touch
ui == <<cli, prm, hook>>

Peers(n) == Nodes \ {n}

AllTxs == UNION {store[n].txs : n \in Nodes}

RECURSIVE SumRecords(_)
SumRecords(S) ==
    IF S = {} THEN 0
    ELSE LET n == CHOOSE x \in S : TRUE
         IN  Cardinality(store[n].users) + Cardinality(store[n].txs)
             + SumRecords(S \ {n})
TotalRecords == SumRecords(Nodes)
InFlight == Cardinality(net) + Cardinality({n \in Nodes : pc[n] = "sending"})

\* An envelope on its way to peer `to`.  The stamp_* fields are history: the
\* logical time and the stores of the originator, which the envelope itself
\* does not carry.
NoFlight == [from |-> "", to |-> "", msg |-> NoMessage, stamp_time |-> 0,
             stamp_pre |-> EmptyStore, stamp_post |-> EmptyStore]

\* a call of handle_command suspended at its await
NoCall == [node |-> "", cmd |-> "None", from_network |-> FALSE, args |-> NoInput,
           prompts |-> 0, db |-> "None", sent |-> 0, result |-> "None",
           clock_before |-> 0, clock_after |-> 0, store_before |-> EmptyStore,
           stamp_time |-> 0, same_start |-> FALSE, same_end |-> FALSE,
           key |-> NoRef, message |-> NoMessage]

\* what `last` keeps of a call
Summary(call) ==
    [node |-> call.node, cmd |-> call.cmd, from_network |-> call.from_network,
     prompts |-> call.prompts, db |-> call.db, sent |-> call.sent,
     result |-> call.result, clock_before |-> call.clock_before,
     clock_after |-> call.clock_after, stamp_time |-> call.stamp_time,
     same_start |-> call.same_start, same_end |-> call.same_end,
     key |-> call.key]

NoClk == [node |-> "", op |-> "None", prev |-> 0, remote |-> 0, outcome |-> "None",
          ret |-> 0]

NoCli == [line |-> [kind |-> "NotRead", text |-> <<>>],
          result |-> [cmd |-> "NotCalled", text |-> <<>>]]
NoPrompt == [label |-> "", typed |-> <<>>, pc |-> "none", value |-> 0]
NoHook == [effect |-> "unmounted", pc |-> "none", fired |-> 0, due |-> 0,
           started |-> 0, completed |-> 0]

Init ==
    /\ store = [n \in Nodes |-> EmptyStore]
    /\ lamport_time = [n \in Nodes |-> 0]
    /\ pc = [n \in Nodes |-> "idle"]
    /\ pending = [n \in Nodes |-> NoCall]
    /\ alive = [n \in Nodes |-> TRUE]
    /\ net = {}
    /\ last = Summary(NoCall)
    /\ clk = NoClk
    /\ cli = NoCli
    /\ prm = NoPrompt
    /\ hook = NoHook

\* send_message_to_all: the envelope goes to every known peer; `delivered`
\* are the peers whose send succeeded, any other peer makes the call an Err
send_message_to_all(from, call, delivered) ==
    [out |-> {[from |-> from, to |-> p, msg |-> call.message,
               stamp_time |-> call.clock_after,
               stamp_pre |-> call.store_before,
               stamp_post |-> store[from]] : p \in delivered},
     res |-> IF delivered = Peers(from) THEN "Ok" ELSE "Err"]

\* node n is between two calls of handle_command
Idle(n) == pc[n] = "idle" /\ alive[n]

\* handle_command(cmd, conn, lamport_time, node, from_network) on an idle node n,
\* from its entry to the await or to its end
Exec(n, cmd, from_network, in, flight) ==
    /\ \E h \in {handle_command(cmd, store[n], lamport_time[n], n, from_network, in)} :
       \E call \in {[node |-> n, cmd |-> cmd, from_network |-> from_network,
                     args |-> in, prompts |-> h.prompts, db |-> h.db, sent |-> 0,
                     result |-> IF h.panicked THEN "Panic"
                                ELSE IF h.send THEN "Pending" ELSE "Ok",
                     clock_before |-> lamport_time[n], clock_after |-> h.clock,
                     store_before |-> store[n], stamp_time |-> flight.stamp_time,
                     same_start |-> from_network /\ store[n] = flight.stamp_pre,
                     same_end |-> from_network /\ h.store = flight.stamp_post,
                     key |-> <<in.transac_time, in.transac_node>>,
                     message |-> h.message]} :
          /\ store' = [store EXCEPT ![n] = h.store]
          /\ lamport_time' = [lamport_time EXCEPT ![n] = h.clock]
          /\ pc' = [pc EXCEPT ![n] = IF h.send THEN "sending" ELSE "idle"]
          /\ pending' = [pending EXCEPT ![n] = IF h.send THEN call ELSE NoCall]
          /\ alive' = [alive EXCEPT ![n] = ~h.panicked]
          /\ last' = Summary(call)
          /\ clk' = clk
          /\ UNCHANGED ui

\* a ledger-mutating command read from the local input stream
Local(n) ==
    /\ Idle(n)
    /\ TotalRecords < MaxRecords
    /\ InFlight < MaxInFlight
    /\ \E cmd \in MutatingCommands : \E in \in Inputs(cmd, AllTxs) :
        /\ Exec(n, cmd, FALSE, in, NoFlight)
        /\ net' = net

\* any other command read from the local input stream
Query(n) ==
    /\ Idle(n)
    /\ \E cmd \in QueryCommands \cup TerminalCommands : \E in \in Inputs(cmd, AllTxs) :
        /\ Exec(n, cmd, FALSE, in, NoFlight)
        /\ net' = net

\* handle_command called with from_network = true for one of these commands
QueryFromNetwork(n) ==
    /\ Idle(n)
    /\ \E cmd \in QueryCommands \cup TerminalCommands : \E in \in Inputs(cmd, AllTxs) :
        /\ Exec(n, cmd, TRUE, in, NoFlight)
        /\ net' = net

\* receipt side: decode the envelope, run the Dispatcher with from_network = true
Receive(n) ==
    /\ Idle(n)
    /\ TotalRecords < MaxRecords
    /\ \E f \in net :
        /\ f.to = n
        /\ f.msg.code = "Transaction"
        /\ \E in \in Inputs(f.msg.origin_command, AllTxs) :
              Exec(n, f.msg.origin_command, TRUE, in, f)
        /\ net' = net \ {f}

\* the `?` after `.await`: an Err of the broadcast is returned to the caller
TrySwallow(res) == "Ok"
Try(res) == res

\* send_message_to_all(..).await? completes and handle_command returns
BroadcastDone(n) ==
    /\ pc[n] = "sending"
    /\ \E delivered \in SUBSET Peers(n) :
          LET s == send_message_to_all(n, pending[n], delivered) IN
          /\ net' = net \cup s.out
          /\ last' = Summary([pending[n] EXCEPT !.sent = 1, !.result = Try(s.res)])
    /\ pc' = [pc EXCEPT ![n] = "idle"]
    /\ pending' = [pending EXCEPT ![n] = NoCall]
    /\ UNCHANGED <<store, lamport_time, alive, clk, ui>>

Next == \E n \in Nodes : Local(n) \/ Receive(n) \/ BroadcastDone(n)

\* The ledger-mutating commands and their replication.
Spec == Init /\ [][Next]_vars

\* The same with the query and terminal commands, which change no state.
NextAll == Next \/ \E n \in Nodes : Query(n) \/ QueryFromNetwork(n)

SpecAll == Init /\ [][NextAll]_vars

\* ---------------------------------------------------------------- run_cli
MaxLine == 3

\* A text is a sequence of pieces: a whitespace character, one of the ten
\* command texts, or some other word.  Pieces are written one after the
\* other: <<"/pay", "foo">> is the text "/payfoo".
White == " "
CommandTexts == {"/create_user", "/user_accounts", "/print_user_tsx", "/print_tsx",
                 "/deposit", "/withdraw", "/transfer", "/pay", "/refund", "/help"}
Pieces == CommandTexts \cup {White, "foo"}
Texts == UNION {[1..k -> Pieces] : k \in 0..MaxLine}

\* the argument of run_cli: Ok(Some(text)), Ok(None) or Err(e)
CliLines ==
    {[kind |-> "Some", text |-> t] : t \in Texts}
    \cup {[kind |-> "None", text |-> <<>>], [kind |-> "Err", text |-> <<>>]}

RECURSIVE trim_start(_)
trim_start(t) ==
    IF t # <<>> /\ Head(t) = White THEN trim_start(Tail(t)) ELSE t

RECURSIVE trim_end(_)
trim_end(t) ==
    IF t # <<>> /\ t[Len(t)] = White THEN trim_end(SubSeq(t, 1, Len(t) - 1)) ELSE t

\* str::trim
trim(t) == trim_end(trim_start(t))

Variant(cmd) == [cmd |-> cmd, text |-> <<>>]

\* the match of parse_command on the text `t`
match_command(t) ==
    IF t = <<"/create_user">> THEN Variant("CreateUser")
    ELSE IF t = <<"/user_accounts">> THEN Variant("UserAccounts")
    ELSE IF t = <<"/print_user_tsx">> THEN Variant("PrintUserTransactions")
    ELSE IF t = <<"/print_tsx">> THEN Variant("PrintTransactions")
    ELSE IF t = <<"/deposit">> THEN Variant("Deposit")
    ELSE IF t = <<"/withdraw">> THEN Variant("Withdraw")
    ELSE IF t = <<"/transfer">> THEN Variant("Transfer")
    ELSE IF t = <<"/pay">> THEN Variant("Pay")
    ELSE IF t = <<"/refund">> THEN Variant("Refund")
    ELSE IF t = <<"/help">> THEN Variant("Help")
    ELSE [cmd |-> "Unknown", text |-> t]

parse_commandNoTrim(input) == match_command(input)
parse_command(input) == match_command(trim(input))

run_cli(line) ==
    IF line.kind = "Some" THEN parse_command(line.text)
    ELSE IF line.kind = "None" THEN [cmd |-> "Unknown", text |-> <<"Aucun input">>]
    ELSE [cmd |-> "Error", text |-> <<"Erreur de lecture stdin">>]

\* any line the input stream can hand to run_cli
InitCli ==
    /\ store = [n \in Nodes |-> EmptyStore]
    /\ lamport_time = [n \in Nodes |-> 0]
    /\ pc = [n \in Nodes |-> "idle"]
    /\ pending = [n \in Nodes |-> NoCall]
    /\ alive = [n \in Nodes |-> TRUE]
    /\ net = {}
    /\ last = Summary(NoCall)
    /\ clk = NoClk
    /\ cli \in {[NoCli EXCEPT !.line = l] : l \in CliLines}
    /\ prm = NoPrompt
    /\ hook = NoHook

RunCli ==
    /\ cli.result.cmd = "NotCalled"
    /\ cli' = [cli EXCEPT !.result = run_cli(cli.line)]
    /\ UNCHANGED <<store, lamport_time, pc, pending, alive, net, last, clk, prm, hook>>

NextCli == RunCli

SpecCli == InitCli /\ [][NextCli]_vars

\* ---------------------------------------------------------------- prompt_parse
MaxReads == 3

\* the labels of the four prompt_parse::<f64> calls
AmountLabels == {"Deposit amount", "Withdraw amount", "Transfer amount",
                 "Payment amount"}

\* what the operator types: a text, with or without whitespace around it
\* (the newline that read_line keeps is whitespace)
TypedTexts == {"abc", "", "1,5", "-1", "0", "1", "2"}
TypedLines == [pad : BOOLEAN, core : TypedTexts]

\* prompt(label): read_line, then input.trim().to_string()
prompt(line) == line.core

\* input.parse::<f64>(): Ok(value) for a number of any sign, Err otherwise
parse_f64(input) ==
    IF input = "-1" THEN [ok |-> TRUE, value |-> 0 - 1]
    ELSE IF input = "0" THEN [ok |-> TRUE, value |-> 0]
    ELSE IF input = "1" THEN [ok |-> TRUE, value |-> 1]
    ELSE IF input = "2" THEN [ok |-> TRUE, value |-> 2]
    ELSE [ok |-> FALSE, value |-> 0]

\* a command branch calls prompt_parse::<f64>(label)
PromptStart ==
    /\ prm.pc \in {"none", "returned"}
    /\ \E label \in AmountLabels :
         prm' = [label |-> label, typed |-> <<>>, pc |-> "reading", value |-> 0]
    /\ UNCHANGED <<store, lamport_time, pc, pending, alive, net, last, clk, cli, hook>>

\* one turn of the loop of prompt_parse: Ok(value) => break value,
\* Err(_) => println!("Invalid input. Try again.") and read again
PromptRead ==
    /\ prm.pc = "reading"
    /\ Len(prm.typed) < MaxReads
    /\ \E line \in TypedLines :
        \E r \in {parse_f64(prompt(line))} :
            prm' = [prm EXCEPT !.typed = Append(@, line),
                               !.pc = IF r.ok THEN "returned" ELSE "reading",
                               !.value = r.value]
    /\ UNCHANGED <<store, lamport_time, pc, pending, alive, net, last, clk, cli, hook>>

NextPrompt == PromptStart \/ PromptRead

SpecPrompt == Init /\ [][NextPrompt]_vars

\* ---------------------------------------------------------------- use_auto_refresh
MaxTicks == 8

\* interval_ms
IntervalMs == {0, 1}

\* hook.effect: "unmounted", "mounted", "cleaned", or "panicked";
\* hook.pc, the position of the spawned task: "none", "tick" (inside
\* interval.tick().await), "fetch" (inside fetcher().await) or "aborted";
\* hook.fired: periods of the interval that have elapsed (the first tick of a
\* tokio interval is due at once); hook.due: those not yet handed to tick();
\* hook.started, hook.completed: calls of fetcher() and ends of its future.

\* use_effect runs the closure: tokio::time::interval (which panics on a zero
\* period), then spawn of the loop, then on_cleanup registers the abort
Mount ==
    /\ hook.effect = "unmounted"
    /\ \E interval_ms \in IntervalMs :
         hook' = IF interval_ms = 0
                 THEN [hook EXCEPT !.effect = "panicked"]
                 ELSE [hook EXCEPT !.effect = "mounted", !.pc = "tick",
                                   !.fired = 1, !.due = 1]
    /\ UNCHANGED <<store, lamport_time, pc, pending, alive, net, last, clk, cli, prm>>

\* one more period of the interval elapses
TimerFire ==
    /\ hook.pc \in {"tick", "fetch"}
    /\ hook.fired < MaxTicks
    /\ hook' = [hook EXCEPT !.fired = @ + 1, !.due = @ + 1]
    /\ UNCHANGED <<store, lamport_time, pc, pending, alive, net, last, clk, cli, prm>>

\* interval.tick().await completes and the loop calls fetcher()
TickReturn ==
    /\ hook.pc = "tick"
    /\ hook.due > 0
    /\ hook' = [hook EXCEPT !.due = @ - 1, !.started = @ + 1, !.pc = "fetch"]
    /\ UNCHANGED <<store, lamport_time, pc, pending, alive, net, last, clk, cli, prm>>

\* fetcher().await completes and the loop goes back to interval.tick()
FetchDone ==
    /\ hook.pc = "fetch"
    /\ hook' = [hook EXCEPT !.completed = @ + 1, !.pc = "tick"]
    /\ UNCHANGED <<store, lamport_time, pc, pending, alive, net, last, clk, cli, prm>>

\* the closure given to on_cleanup: task.abort()
on_cleanupNoAbort(h) == [h EXCEPT !.effect = "cleaned"]
on_cleanup(h) == [h EXCEPT !.effect = "cleaned", !.pc = "aborted"]

\* the effect is cleaned up
Cleanup ==
    /\ hook.effect = "mounted"
    /\ hook' = on_cleanup(hook)
    /\ UNCHANGED <<store, lamport_time, pc, pending, alive, net, last, clk, cli, prm>>

NextRefresh == Mount \/ TimerFire \/ TickReturn \/ FetchDone \/ Cleanup

SpecRefresh == Init /\ [][NextRefresh]_vars

\* ---------------------------------------------------------------- the Clock alone
\* tick() and observe(remote) applied to a node's counter, any number of
\* times, with any remote value an envelope can hold.  `x + 1` on an i64 at
\* its maximum wraps in a build without overflow checks and panics in a build
\* with them.
TickStep(n) ==
    LET c == lamport_time[n] IN
    /\ \/ /\ lamport_time' = [lamport_time EXCEPT ![n] = tick(c)]
          /\ clk' = [node |-> n, op |-> "tick", prev |-> c, remote |-> 0,
                     outcome |-> "returned", ret |-> tick(c)]
       \/ /\ c + 1 > I64_MAX
          /\ lamport_time' = lamport_time
          /\ clk' = [node |-> n, op |-> "tick", prev |-> c, remote |-> 0,
                     outcome |-> "panic", ret |-> c]
    /\ UNCHANGED <<store, pc, pending, alive, net, last, ui>>

ObserveStep(n) ==
    \E remote \in I64 :
        LET c == lamport_time[n] IN
        /\ \/ /\ lamport_time' = [lamport_time EXCEPT ![n] = observe(c, remote)]
              /\ clk' = [node |-> n, op |-> "observe", prev |-> c, remote |-> remote,
                         outcome |-> "returned", ret |-> observe(c, remote)]
           \/ /\ Max(c, remote) + 1 > I64_MAX
              /\ lamport_time' = lamport_time
              /\ clk' = [node |-> n, op |-> "observe", prev |-> c, remote |-> remote,
                         outcome |-> "panic", ret |-> c]
        /\ UNCHANGED <<store, pc, pending, alive, net, last, ui>>

NextClock == \E n \in Nodes : TickStep(n) \/ ObserveStep(n)

SpecClock == Init /\ [][NextClock]_vars

\* ---------------------------------------------------------------- properties
UserErrors == {"DuplicateUser", "UnknownUser", "InvalidAmount", "InsufficientFunds",
               "TransactionNotFound"}
Returned == last.result \in {"Ok", "Err"}

\* C1: a call of handle_command with from_network = true never reaches
\* send_message_to_all: it is never suspended in a broadcast and it ends
\* having sent nothing.
C1_AntiEcho ==
    /\ last.from_network => (last.sent = 0 /\ last.result # "Pending")
    /\ \A n \in Nodes : pc[n] = "sending" => ~pending[n].from_network
C1_Witness == last.from_network /\ last.db = "Ok" /\ last.cmd = "Deposit"

\* C2 as stated: every locally originated ledger-mutating command, Refund
\* included, whose db operation succeeded has made exactly one broadcast
\* attempt when handle_command returns.
C2_Original ==
    (Returned /\ ~last.from_network /\ last.db = "Ok"
       /\ last.cmd \in MutatingCommands) => last.sent = 1
\* C2 as amended: the same for CreateUser, Deposit, Withdraw, Transfer and
\* Pay; a successful local call of these never returns without its one
\* broadcast attempt.
C2_Amended ==
    (~last.from_network /\ last.db = "Ok"
       /\ last.cmd \in {"CreateUser", "Deposit", "Withdraw", "Transfer", "Pay"})
    => /\ last.result \in {"Pending", "Ok", "Err"}
       /\ Returned => last.sent = 1
       /\ last.result = "Pending" => (last.sent = 0 /\ pc[last.node] = "sending")
C2_Witness ==
    Returned /\ ~last.from_network /\ last.db = "Ok" /\ last.cmd = "Pay" /\ last.sent = 1

\* C3: when a peer whose store equalled the originator's store before the
\* command applies the broadcast command, its store (balances and
\* transaction records) equals the originator's store after the command.
C3_Convergence ==
    (last.from_network /\ last.db = "Ok" /\ last.same_start) => last.same_end

\* C4: a call with from_network = true reads nothing from the prompt.
C4_NoPromptOnNetwork == last.from_network => last.prompts = 0

\* C5: when the db operation fails, handle_command returns Err and the node
\* stays able to execute commands.
C5_ErrReturned ==
    last.db \notin {"Ok", "None"} => (last.result = "Err" /\ alive[last.node])

\* C6: after a node applied a network-originated command that its originator
\* stamped with time t, the node's counter is greater than t and greater
\* than its own previous value.
C6_ObserveOnReceipt ==
    (last.from_network /\ last.db = "Ok" /\ last.cmd \in StampingCommands)
    => (last.clock_after > last.stamp_time /\ last.clock_after > last.clock_before)

\* C7: every successful record-creating command leaves the counter greater
\* than it was before the call.
C7_ClockAdvances ==
    (last.db = "Ok" /\ last.cmd \in MutatingCommands)
    => last.clock_after > last.clock_before

\* C8 as stated: every tick and observe returns a value greater than the
\* counter's previous value, observe(remote) one greater than remote, and the
\* counter holds the returned value.
C8_Original ==
    clk.op # "None"
    => /\ clk.outcome = "returned"
       /\ clk.ret > clk.prev
       /\ clk.op = "observe" => clk.ret > clk.remote
       /\ lamport_time[clk.node] = clk.ret
\* C8 as amended: the same whenever the counter, and for observe the remote
\* value, are below the largest i64.
C8_Amended ==
    (clk.op # "None" /\ clk.prev < I64_MAX
       /\ (clk.op = "observe" => clk.remote < I64_MAX))
    => /\ clk.outcome = "returned"
       /\ clk.ret > clk.prev
       /\ clk.op = "observe" => clk.ret > clk.remote
       /\ lamport_time[clk.node] = clk.ret
C8_Witness ==
    /\ clk.op = "observe" /\ clk.remote > clk.prev /\ clk.prev > 0
    /\ clk.remote < I64_MAX /\ clk.ret = clk.remote + 1

\* C9: no two distinct transactions, in any stores, have the same
\* (lamport_time, origin_node).
C9_UniqueKeys ==
    \A t1 \in AllTxs : \A t2 \in AllTxs :
        (t1.lamport_time = t2.lamport_time /\ t1.origin_node = t2.origin_node)
        => t1 = t2
C9_Witness ==
    \E n \in Nodes : \E t1 \in store[n].txs : \E t2 \in store[n].txs :
        t1 # t2 /\ t1.origin_node = t2.origin_node

\* C10: a step in which the db operation fails with a user-input error
\* changes no store: every balance, the users and the transactions stay.
C10_NoMutationOnFailure ==
    [][(last'.db \in UserErrors) => (store' = store)]_vars
C10_Witness == last.db = "InsufficientFunds" /\ last.cmd = "Withdraw"

\* C11: when handle_command comes back from send_message_to_all, the store of
\* the node is the one the db operation left (which differs from the store
\* before the command), and if a peer was not reached the caller gets Err.
C11_ErrAfterCommit ==
    [][\A n \in Nodes :
         (pc[n] = "sending" /\ pc'[n] = "idle") =>
            /\ store'[n] = store[n]
            /\ store'[n] # pending[n].store_before
            /\ lamport_time'[n] = lamport_time[n]
            /\ (Cardinality(net' \ net) < Cardinality(Peers(n))
                  => (last'.result = "Err" /\ last'.db = "Ok"))]_vars
C11_Witness ==
    /\ last.result = "Err" /\ last.cmd = "Deposit" /\ last.sent = 1
    /\ store[last.node].txs # {}

\* C12: while a node is inside send_message_to_all().await, a further command
\* can run on that node.
AnyCommand(n) ==
    /\ Idle(n)
    /\ \E cmd \in Command : \E in \in Inputs(cmd, AllTxs) :
        /\ Exec(n, cmd, FALSE, in, NoFlight)
        /\ net' = net
C12_LockReleased ==
    \A n \in Nodes : (pc[n] = "sending" /\ alive[n]) => ENABLED AnyCommand(n)

\* C13: a Refund is never sent and never received: no envelope carries it, no
\* node is inside send_message_to_all for it, no execution of it has
\* from_network set, and a local Refund that succeeds returns without a send
\* and leaves a transaction that refers to the refunded key.
C13_RefundLocalOnly ==
    /\ \A f \in net : f.msg.origin_command # "Refund"
    /\ \A n \in Nodes : pc[n] = "sending" => pending[n].cmd # "Refund"
    /\ (last.cmd = "Refund") =>
          /\ ~last.from_network
          /\ last.sent = 0
          /\ last.result \in {"Ok", "Panic"}
          /\ (last.db = "Ok") =>
                (\E x \in store[last.node].txs : x.reference = last.key)
C13_Witness == last.cmd = "Refund" /\ last.db = "Ok" /\ last.result = "Ok"

\* C14: no step removes or alters a transaction of any store, and a Refund
\* that succeeds adds exactly one transaction T' for the transaction T with
\* the key asked for: T'.sender = T.beneficiary, T'.beneficiary = T.sender,
\* T'.amount = T.amount and T'.reference is the key of T.
C14_RefundRecord ==
    [][/\ \A n \in Nodes : store[n].txs \subseteq store'[n].txs
       /\ (last'.cmd = "Refund" /\ last'.db = "Ok") =>
            \E T \in store[last'.node].txs :
            \E R \in store'[last'.node].txs \ store[last'.node].txs :
                /\ <<T.lamport_time, T.origin_node>> = last'.key
                /\ store'[last'.node].txs = store[last'.node].txs \cup {R}
                /\ R.sender = T.beneficiary
                /\ R.beneficiary = T.sender
                /\ R.amount = T.amount
                /\ R.reference = <<T.lamport_time, T.origin_node>>
                /\ T \in store'[last'.node].txs]_vars
C14_Witness ==
    /\ last.cmd = "Refund" /\ last.db = "Ok"
    /\ \E T \in store[last.node].txs : \E R \in store[last.node].txs :
         /\ R.reference = <<T.lamport_time, T.origin_node>>
         /\ T.sender # T.beneficiary /\ R.sender = T.beneficiary

\* C15: the value prompt_parse hands back for an amount is positive, and every
\* line read before it was one that does not parse.
C15_PositiveAmount ==
    (prm.pc = "returned") =>
        /\ prm.value > 0
        /\ \A i \in 1..(Len(prm.typed) - 1) : ~parse_f64(prompt(prm.typed[i])).ok

\* C16: a step of UserAccounts, PrintUserTransactions, PrintTransactions,
\* Help, Unknown or Error, with from_network set or not, leaves every store,
\* every clock and the network as they were, and starts no send.
C16_NonMutatingFrame ==
    [][(last'.cmd \in QueryCommands \cup TerminalCommands) =>
          /\ store' = store
          /\ lamport_time' = lamport_time
          /\ net' = net
          /\ pc' = pc
          /\ last'.sent = 0
          /\ last'.result \in {"Ok", "Panic"}]_vars
C16_Witness ==
    /\ last.cmd = "PrintTransactions" /\ last.from_network /\ last.db = "Ok"
    /\ store[last.node].txs # {}
    /\ lamport_time[last.node] > 0

\* C17: run_cli gives, for Ok(Some(text)), the variant of the command text
\* that `text` is, Unknown carrying `text` when it is none of the ten, and
\* Error for Err; a ledger-mutating variant comes from its own text only.
CommandTable ==
    {<<"/create_user", "CreateUser">>, <<"/user_accounts", "UserAccounts">>,
     <<"/print_user_tsx", "PrintUserTransactions">>,
     <<"/print_tsx", "PrintTransactions">>, <<"/deposit", "Deposit">>,
     <<"/withdraw", "Withdraw">>, <<"/transfer", "Transfer">>, <<"/pay", "Pay">>,
     <<"/refund", "Refund">>, <<"/help", "Help">>}
C17_Original ==
    (cli.result.cmd # "NotCalled") =>
        /\ (cli.line.kind = "Err") => (cli.result.cmd = "Error")
        /\ (cli.line.kind = "Some") =>
            /\ \A e \in CommandTable :
                 (cli.line.text = <<e[1]>>) <=> (cli.result.cmd = e[2])
            /\ (\A e \in CommandTable : cli.line.text # <<e[1]>>)
                 => (cli.result = [cmd |-> "Unknown", text |-> cli.line.text])

\* C17 (amended): whitespace around the text does not count.  run_cli gives
\* the variant of a command text exactly for the texts made of that command
\* text with any whitespace before and after it; for every other text it
\* gives Unknown carrying the text without its leading and trailing
\* whitespace; for Ok(None) it gives Unknown("Aucun input"), for Err it gives
\* Error.
Spaces(k) == [i \in 1..k |-> White]
Padded(core, text) ==
    \E i \in 0..Len(text) : \E j \in 0..Len(text) :
        text = Spaces(i) \o core \o Spaces(j)
C17_Amended ==
    (cli.result.cmd # "NotCalled") =>
        /\ (cli.line.kind = "Err") => (cli.result.cmd = "Error")
        /\ (cli.line.kind = "None") =>
             (cli.result = [cmd |-> "Unknown", text |-> <<"Aucun input">>])
        /\ (cli.result.cmd \in MutatingCommands) => (cli.line.kind = "Some")
        /\ (cli.line.kind = "Some") =>
            /\ \A e \in CommandTable :
                 Padded(<<e[1]>>, cli.line.text) <=> (cli.result.cmd = e[2])
            /\ (\A e \in CommandTable : ~Padded(<<e[1]>>, cli.line.text)) =>
                 /\ cli.result.cmd = "Unknown"
                 /\ Padded(cli.result.text, cli.line.text)
                 /\ (cli.result.text # <<>>) =>
                      /\ Head(cli.result.text) # White
                      /\ cli.result.text[Len(cli.result.text)] # White
C17_Witness ==
    /\ cli.result.cmd = "Deposit"
    /\ cli.line.text = <<White, "/deposit", White>>

\* C18: a node is inside send_message_to_all only for a local command whose
\* db operation returned Ok and whose effect is already in the node's store;
\* every envelope was stamped with a store the command had changed; and a
\* command whose db operation failed has sent nothing.
C18_SendAfterCommit ==
    /\ \A n \in Nodes : (pc[n] = "sending") =>
          /\ pending[n].db = "Ok"
          /\ ~pending[n].from_network
          /\ store[n] # pending[n].store_before
    /\ \A f \in net : f.stamp_post # f.stamp_pre
    /\ (last.db \notin {"Ok", "None"}) =>
          /\ last.sent = 0
          /\ last.result = "Panic"
          /\ pc[last.node] = "idle"
C18_Witness ==
    \E n \in Nodes : /\ pc[n] = "sending" /\ pending[n].cmd = "Withdraw"
                      /\ \E x \in store[n].txs : x.sender # NULL

\* C19: the message a local command hands to send_message_to_all names that
\* command, has code Transaction, and its payload is of the command's kind
\* and holds the arguments of the db call: the user created, or the sender,
\* beneficiary and amount of the transaction the call recorded.
Carries(msg, before, after) ==
    LET p == msg.payload
        new == after.txs \ before.txs
    IN  /\ msg.code = "Transaction"
        /\ p.kind = msg.origin_command
        /\ p.kind \in {"CreateUser", "Deposit", "Withdraw", "Transfer", "Pay"}
        /\ (p.kind = "CreateUser") => (after.users \ before.users = {p.name})
        /\ (p.kind = "Deposit") =>
             (\E x \in new : x.sender = NULL /\ x.beneficiary = p.name
                              /\ x.amount = p.amount)
        /\ (p.kind = "Withdraw") =>
             (\E x \in new : x.sender = p.name /\ x.beneficiary = NULL
                              /\ x.amount = p.amount)
        /\ (p.kind = "Transfer") =>
             (\E x \in new : x.sender = p.name /\ x.beneficiary = p.beneficiary
                              /\ x.amount = p.amount)
        /\ (p.kind = "Pay") =>
             (\E x \in new : x.sender = p.name /\ x.beneficiary = NULL
                              /\ x.amount = p.amount)
C19_PayloadIsCall ==
    /\ \A n \in Nodes : (pc[n] = "sending") =>
          /\ pending[n].message.origin_command = pending[n].cmd
          /\ pending[n].message.payload.name = pending[n].args.name
          /\ pending[n].message.payload.amount = pending[n].args.amount
          /\ pending[n].message.payload.beneficiary = pending[n].args.beneficiary
          /\ Carries(pending[n].message, pending[n].store_before, store[n])
    /\ \A f \in net : Carries(f.msg, f.stamp_pre, f.stamp_post)
C19_Witness ==
    \E f \in net : /\ f.msg.origin_command = "Transfer"
                    /\ f.msg.payload.name # f.msg.payload.beneficiary
                    /\ f.msg.payload.amount = 1

\* C20: fetcher is called once for each tick the interval hands out and never
\* more often than periods have elapsed; a call starts only when the call
\* before it has completed; and once the effect is cleaned up the task is
\* aborted and no further call starts.
C20_AutoRefresh ==
    [][/\ hook'.started + hook'.due = hook'.fired
       /\ hook'.completed <= hook'.started
       /\ hook'.started <= hook'.completed + 1
       /\ (hook'.started # hook.started) =>
             /\ hook'.started = hook.started + 1
             /\ hook.completed = hook.started
             /\ hook.due > 0
             /\ hook.effect = "mounted"
       /\ (hook'.effect = "cleaned") => (hook'.pc = "aborted")
       /\ (hook.effect = "cleaned") => (hook'.started = hook.started)]_vars
C20_Witness ==
    /\ hook.effect = "cleaned" /\ hook.pc = "aborted"
    /\ hook.started = 3 /\ hook.completed = 2 /\ hook.due > 0

====
